---- MODULE Spec2Model ----
(***************************************************************************)
(* Scene statistics of the info header                                     *)
(* (source/blender/editors/space_info/info_stats.c).                       *)
(*                                                                         *)
(* The view layer owns a lazily computed SceneStats cache.                 *)
(* ED_info_stats_string recomputes it when absent (stats_update) and       *)
(* rebuilds the display string on every call (stats_string);               *)
(* ED_info_stats_clear drops it.                                           *)
(*                                                                         *)
(* Representation of uint64_t counters: TLC integers are 32 bit, so a      *)
(* counter holds the two's complement reading of its 64 bit pattern: a     *)
(* value k >= 0 stands for k, a value k < 0 stands for 2^64 + k (so the    *)
(* decrement of a zero counter gives -1, that is 2^64 - 1).  Addition of   *)
(* bit patterns is integer addition of the readings; the unsigned order is *)
(* ULe and the decimal rendering is U64Decimal.  The scenes keep every     *)
(* reading within 2^31 of zero, where this is exact.                       *)
(*                                                                         *)
(* The products of the int locals (totvert * totob) keep the width of int: *)
(* a product that does not fit is undefined behaviour, and the build       *)
(* decides what happens: IntOverflow.                                      *)
(*                                                                         *)
(* Pointers that may be NULL are sequences of length <= 1: NULL is <<>>    *)
(* and a pointer to x is <<x>>.                                            *)
(***************************************************************************)
EXTENDS Integers, Sequences, FiniteSets, TLC

VARIABLES scene, view_layer, mem, call, nupdate, upd

vars == <<scene, view_layer, mem, call, nupdate, upd>>

NULL == <<>>

Ptr(x) == <<x>>

Deref(p) == p[1]

(* Unsigned order of two counters given by their two's complement reading. *)
ULe(a, b) == IF (a < 0) = (b < 0) THEN a <= b ELSE b < 0

RECURSIVE SeqSum(_)
SeqSum(s) == IF s = <<>> THEN 0 ELSE Head(s) + SeqSum(Tail(s))

RECURSIVE Flatten(_)
Flatten(ss) == IF ss = <<>> THEN <<>> ELSE Head(ss) \o Flatten(Tail(ss))

(***************************************************************************)
(* int arithmetic.                                                         *)
(***************************************************************************)
(* What a build does on signed overflow: the product wraps to its low 32   *)
(* bits (the multiply instruction, -fwrapv) or the process traps           *)
(* (-ftrapv, the sanitizer).                                               *)
IntOverflow == {"wrap", "trap"}

(* a * b fits int, for a, b >= 0. *)
IntFits(a, b) == a = 0 \/ b = 0 \/ a <= 2147483647 \div b

(* a * b in two's complement of 32 bits, for 0 <= a, b < 2^31: the product *)
(* when it fits.  With a = a1 * 2^16 + a0 and b = b1 * 2^16 + b0 the low   *)
(* 32 bits are those of (a1 * b0 + a0 * b1) * 2^16 + a0 * b0; a0 * b0 is   *)
(* taken in two steps, over the bytes of a0, to stay within 31 bits.       *)
IntLo16(a0, b0) == ((((a0 \div 256) * b0) % 256) * 256 + (a0 % 256) * b0) % 65536

IntCarry(a0, b0) == ((a0 \div 256) * b0) \div 256 + ((((a0 \div 256) * b0) % 256) * 256 + (a0 % 256) * b0) \div 65536

IntHi16(a, b) == ((((a \div 65536) * (b % 65536)) % 65536) + (((a % 65536) * (b \div 65536)) % 65536) + IntCarry(a % 65536, b % 65536)) % 65536

IntSigned(hi16, lo16) == IF hi16 >= 32768 THEN (hi16 - 65536) * 65536 + lo16 ELSE hi16 * 65536 + lo16

IntWrapMul(a, b) == IntSigned(IntHi16(a, b), IntLo16(a % 65536, b % 65536))

(***************************************************************************)
(* SceneStats.  The fields build and trapped are not part of the struct:   *)
(* they say what the build does on signed overflow and whether the process *)
(* trapped while the accumulator was filled.  The field log is not part of the struct: it is the history *)
(* of the calls made while the accumulator was filled, kept so that the    *)
(* properties can speak about individual calls.                            *)
(***************************************************************************)
CounterFields == {"totvert", "totvertsel", "totedge", "totedgesel", "totface", "totfacesel", "totbone", "totbonesel", "totobj", "totobjsel", "totlamp", "totlampsel", "tottri", "totgplayer", "totgpframe", "totgpstroke", "totgppoint"}

(* SceneStats stats = {0} *)
ZeroStats ==
    [
     totvert |-> 0, totvertsel |-> 0, totedge |-> 0, totedgesel |-> 0,
     totface |-> 0, totfacesel |-> 0, totbone |-> 0, totbonesel |-> 0,
     totobj |-> 0, totobjsel |-> 0, totlamp |-> 0, totlampsel |-> 0,
     tottri |-> 0, totgplayer |-> 0, totgpframe |-> 0, totgpstroke |-> 0,
     totgppoint |-> 0,
     infostr |-> <<>>, log |-> <<>>, build |-> "wrap", trapped |-> FALSE ]

(* The counters of an accumulator, without its text and history. *)
Counters(stats) ==
    [
     totvert |-> stats.totvert, totvertsel |-> stats.totvertsel, totedge |-> stats.totedge, totedgesel |-> stats.totedgesel,
     totface |-> stats.totface, totfacesel |-> stats.totfacesel, totbone |-> stats.totbone, totbonesel |-> stats.totbonesel,
     totobj |-> stats.totobj, totobjsel |-> stats.totobjsel, totlamp |-> stats.totlamp, totlampsel |-> stats.totlampsel,
     tottri |-> stats.tottri, totgplayer |-> stats.totgplayer, totgpframe |-> stats.totgpframe, totgpstroke |-> stats.totgpstroke,
     totgppoint |-> stats.totgppoint ]

(* poly_to_tri_count(poly_count, corner_count): every polygon of k corners *)
(* gives k - 2 triangles.                                                  *)
poly_to_tri_count(poly_count, corner_count) == corner_count - (poly_count * 2)

(* The result is the pair of the returned bool and the accumulator.         *)
stats_mesheval(me_eval, sel, totob, stats) ==
    IF me_eval # NULL
    THEN LET me == Deref(me_eval)
             totvert == me.totvert
             totedge == me.totedge
             totface == me.totpoly
             totloop == me.totloop
             fits == IntFits(totvert, totob) /\ IntFits(totedge, totob) /\ IntFits(totface, totob)
                        /\ IntFits(poly_to_tri_count(totface, totloop), totob)
         IN IF ~fits /\ stats.build = "trap" THEN [ok |-> TRUE, stats |-> [stats EXCEPT !.trapped = TRUE]]
            ELSE
            [ok |-> TRUE,
             stats |-> [stats EXCEPT !.totvert = @ + IntWrapMul(totvert, totob),
                                     !.totedge = @ + IntWrapMul(totedge, totob),
                                     !.totface = @ + IntWrapMul(totface, totob),
                                     !.tottri = @ + IntWrapMul(poly_to_tri_count(totface, totloop), totob),
                                     !.totvertsel = IF sel THEN @ + totvert ELSE @,
                                     !.totfacesel = IF sel THEN @ + totface ELSE @]]
    ELSE [ok |-> FALSE, stats |-> stats]

(* case OB_MBALL, and the fall through of OB_SURF, OB_CURVE, OB_FONT.      *)
stats_object_displist(ob, sel, totob, stats) ==
    LET has == ob.disp # NULL
        totv0 == IF has THEN Deref(ob.disp).totv ELSE 0
        totf0 == IF has THEN Deref(ob.disp).totf ELSE 0
        tottri0 == IF has THEN Deref(ob.disp).tottri ELSE 0
        fits == IntFits(totv0, totob) /\ IntFits(totf0, totob) /\ IntFits(tottri0, totob)
        totv == IntWrapMul(totv0, totob)
        totf == IntWrapMul(totf0, totob)
        tottri == IntWrapMul(tottri0, totob)
    IN IF ~fits /\ stats.build = "trap" THEN [stats EXCEPT !.trapped = TRUE]
       ELSE
       [stats EXCEPT !.totvert = @ + totv,
                     !.totface = @ + totf,
                     !.tottri = @ + tottri,
                     !.totvertsel = IF sel THEN @ + totv ELSE @,
                     !.totfacesel = IF sel THEN @ + totf ELSE @]

stats_object_switch(ob, sel, totob, stats) ==
    CASE ob.type = "OB_MESH" -> stats_mesheval(ob.mesh_eval, sel, totob, stats).stats
      [] ob.type = "OB_LAMP" ->
            [stats EXCEPT !.totlamp = @ + totob,
                          !.totlampsel = IF sel THEN @ + totob ELSE @]
      [] ob.type \in {"OB_SURF", "OB_CURVE", "OB_FONT"} ->
            LET r == stats_mesheval(ob.mesh_eval, sel, totob, stats)
            IN IF r.ok THEN r.stats ELSE stats_object_displist(ob, sel, totob, stats)
      [] ob.type = "OB_MBALL" -> stats_object_displist(ob, sel, totob, stats)
      [] ob.type = "OB_GPENCIL" ->
            IF sel
            THEN [stats EXCEPT !.totgplayer = @ + ob.gpd.totlayer,
                               !.totgpframe = @ + ob.gpd.totframe,
                               !.totgpstroke = @ + ob.gpd.totstroke,
                               !.totgppoint = @ + ob.gpd.totpoint]
            ELSE stats
      [] OTHER -> stats

(* stats_object, with the call recorded in the history.                    *)
stats_object(ob, sel, totob, stats) ==
    LET post == stats_object_switch(ob, sel, totob, stats)
    IN [post EXCEPT !.log = Append(@, [fn |-> "stats_object", ob |-> ob, sel |-> sel, totob |-> totob, pre |-> Counters(stats), post |-> Counters(post)])]


(***************************************************************************)
(* Edit mode.                                                              *)
(***************************************************************************)
RECURSIVE stats_object_edit_armature_satdec(_, _, _)
stats_object_edit_armature_satdec(edbo, i, stats) ==
    IF i > Len(edbo) THEN stats
    ELSE LET ebo == edbo[i]
             hasparent == ebo.parent # 0
             s1 == [stats EXCEPT !.totbone = @ + 1]
             s2 == IF "BONE_CONNECTED" \in ebo.flag /\ hasparent /\ s1.totvert > 0 THEN [s1 EXCEPT !.totvert = @ - 1] ELSE s1
             s3 == [s2 EXCEPT !.totvertsel = @ + (IF "BONE_TIPSEL" \in ebo.flag THEN 1 ELSE 0) + (IF "BONE_ROOTSEL" \in ebo.flag THEN 1 ELSE 0)]
             s4 == IF "BONE_SELECTED" \in ebo.flag THEN [s3 EXCEPT !.totbonesel = @ + 1] ELSE s3
             s5 == IF "BONE_CONNECTED" \in ebo.flag /\ "BONE_ROOTSEL" \in ebo.flag /\ hasparent /\ "BONE_TIPSEL" \in edbo[ebo.parent].flag
                   THEN [s4 EXCEPT !.totvertsel = @ - 1] ELSE s4
             s6 == [s5 EXCEPT !.totvert = @ + 2]
         IN stats_object_edit_armature_satdec(edbo, i + 1, s6)

(* The loop over arm->edbo, from the bone at index i on.  A bone's parent  *)
(* is the index of another bone of the list, 0 for no parent.              *)
RECURSIVE stats_object_edit_armature(_, _, _)
stats_object_edit_armature(edbo, i, stats) ==
    IF i > Len(edbo) THEN stats
    ELSE LET ebo == edbo[i]
             hasparent == ebo.parent # 0
             s1 == [stats EXCEPT !.totbone = @ + 1]
             s2 == IF "BONE_CONNECTED" \in ebo.flag /\ hasparent THEN [s1 EXCEPT !.totvert = @ - 1] ELSE s1
             s3 == [s2 EXCEPT !.totvertsel = @ + (IF "BONE_TIPSEL" \in ebo.flag THEN 1 ELSE 0) + (IF "BONE_ROOTSEL" \in ebo.flag THEN 1 ELSE 0)]
             s4 == IF "BONE_SELECTED" \in ebo.flag THEN [s3 EXCEPT !.totbonesel = @ + 1] ELSE s3
             s5 == IF "BONE_CONNECTED" \in ebo.flag /\ "BONE_ROOTSEL" \in ebo.flag /\ hasparent /\ "BONE_TIPSEL" \in edbo[ebo.parent].flag
                   THEN [s4 EXCEPT !.totvertsel = @ - 1] ELSE s4
             s6 == [s5 EXCEPT !.totvert = @ + 2]
         IN stats_object_edit_armature(edbo, i + 1, s6)

(* Number of selection flags set among the given points' flags.            *)
RECURSIVE CountSel(_)
CountSel(flags) == IF flags = <<>> THEN 0 ELSE (IF Head(flags) THEN 1 ELSE 0) + CountSel(Tail(flags))

(* One Nurb of the edit curve: Bezier points carry f1, f2, f3, the others  *)
(* f1; a = pntsu, respectively pntsu * pntsv, points are read.             *)
stats_object_edit_nurb(nu, stats) ==
    IF nu.type = "CU_BEZIER"
    THEN LET pts == SubSeq(nu.bezt, 1, nu.pntsu)
         IN [stats EXCEPT !.totvert = @ + 3 * Len(pts),
                          !.totvertsel = @ + CountSel(Flatten([i \in 1..Len(pts) |-> <<pts[i].f1, pts[i].f2, pts[i].f3>>]))]
    ELSE LET pts == SubSeq(nu.bp, 1, nu.pntsu * nu.pntsv)
         IN [stats EXCEPT !.totvert = @ + Len(pts),
                          !.totvertsel = @ + CountSel([i \in 1..Len(pts) |-> pts[i].f1])]

RECURSIVE stats_object_edit_curve(_, _)
stats_object_edit_curve(nurbs, stats) ==
    IF nurbs = <<>> THEN stats
    ELSE stats_object_edit_curve(Tail(nurbs), stats_object_edit_nurb(Head(nurbs), stats))

stats_object_edit_switch(obedit, stats) ==
    CASE obedit.type = "OB_MESH" ->
            LET em == obedit.em
            IN [stats EXCEPT !.totvert = @ + em.totvert,
                             !.totvertsel = @ + em.totvertsel,
                             !.totedge = @ + em.totedge,
                             !.totedgesel = @ + em.totedgesel,
                             !.totface = @ + em.totface,
                             !.totfacesel = @ + em.totfacesel,
                             !.tottri = @ + em.tottri]
      [] obedit.type = "OB_ARMATURE" -> stats_object_edit_armature(obedit.edbo, 1, stats)
      [] obedit.type \in {"OB_CURVE", "OB_SURF"} -> stats_object_edit_curve(obedit.nurbs, stats)
      [] obedit.type = "OB_MBALL" ->
            [stats EXCEPT !.totvert = @ + Len(obedit.editelems),
                          !.totvertsel = @ + CountSel([i \in 1..Len(obedit.editelems) |-> obedit.editelems[i].select])]
      [] obedit.type = "OB_LATTICE" ->
            LET latt == obedit.editlatt
                pts == SubSeq(latt.def, 1, latt.pntsu * latt.pntsv * latt.pntsw)
            IN [stats EXCEPT !.totvert = @ + Len(pts),
                             !.totvertsel = @ + CountSel([i \in 1..Len(pts) |-> pts[i].f1])]
      [] OTHER -> stats

stats_object_edit(obedit, stats) ==
    LET post == stats_object_edit_switch(obedit, stats)
    IN [post EXCEPT !.log = Append(@, [fn |-> "stats_object_edit", ob |-> obedit])]

(***************************************************************************)
(* Pose mode and dynamic-topology sculpt mode.                             *)
(***************************************************************************)
RECURSIVE stats_object_pose_loop(_, _, _)
stats_object_pose_loop(chanbase, arm, stats) ==
    IF chanbase = <<>> THEN stats
    ELSE LET pchan == Head(chanbase)
             s1 == [stats EXCEPT !.totbone = @ + 1]
             s2 == IF pchan.bone # NULL /\ "BONE_SELECTED" \in Deref(pchan.bone).flag /\ Deref(pchan.bone).layer \cap arm.layer # {}
                   THEN [s1 EXCEPT !.totbonesel = @ + 1] ELSE s1
         IN stats_object_pose_loop(Tail(chanbase), arm, s2)

stats_object_pose(ob, stats) ==
    LET post == IF ob.pose # NULL THEN stats_object_pose_loop(Deref(ob.pose).chanbase, ob.arm, stats) ELSE stats
    IN [post EXCEPT !.log = Append(@, [fn |-> "stats_object_pose", ob |-> ob])]

stats_object_sculpt_dynamic_topology(ob, stats) ==
    [stats EXCEPT !.totvert = Deref(Deref(ob.sculpt).bm).totvert,
                  !.tottri = Deref(Deref(ob.sculpt).bm).totface,
                  !.log = Append(@, [fn |-> "stats_object_sculpt_dynamic_topology", ob |-> ob])]

stats_is_object_dynamic_topology_sculpt(ob, object_mode) ==
    /\ ob # NULL
    /\ "OB_MODE_SCULPT" \in object_mode
    /\ Deref(ob).sculpt # NULL
    /\ Deref(Deref(ob).sculpt).bm # NULL

(***************************************************************************)
(* Object mode: duplication.                                               *)
(***************************************************************************)
(* count_particles(psys): the live particles of the system.                *)
count_particles(psys) == psys.totlive

(* count_particles_mod(psys, totgr, cur): the live particles dealt to      *)
(* recipient cur when particle p goes to recipient p mod totgr.            *)
count_particles_mod(psys, totgr, cur) == Cardinality({p \in 0..(count_particles(psys) - 1) : p % totgr = cur})

(* count_duplilist(ob): the instances the duplication list of ob holds.    *)
count_duplilist(ob) == ob.duplilist

(* BLI_listbase_count *)
BLI_listbase_count(listbase) == Len(listbase)

(* stats_dupli_object_group_count that takes the child collections for     *)
(* members instead of descending into them.                                *)
stats_dupli_object_group_count_flat(collection, count) ==
    count + BLI_listbase_count(collection.gobject) + BLI_listbase_count(collection.children)

RECURSIVE stats_dupli_object_group_count(_, _)
RECURSIVE stats_dupli_object_group_count_children(_, _)
stats_dupli_object_group_count(collection, count) ==
    stats_dupli_object_group_count_children(collection.children, count + BLI_listbase_count(collection.gobject))

stats_dupli_object_group_count_children(children, count) ==
    IF children = <<>> THEN count
    ELSE stats_dupli_object_group_count_children(Tail(children), stats_dupli_object_group_count(Head(children), count))

(* The loop over collection->gobject without the increment of the index.   *)
RECURSIVE stats_dupli_object_group_doit_members_nocur(_, _, _, _)
stats_dupli_object_group_doit_members_nocur(gobject, acc, psys, totgroup) ==
    IF gobject = <<>> THEN acc
    ELSE LET cob == Head(gobject)
             tot == count_particles_mod(psys, totgroup, acc.cur)
             s1 == [acc.stats EXCEPT !.log = Append(@, [fn |-> "stats_dupli_object_group_doit", ob |-> cob, totgroup |-> totgroup, cur |-> acc.cur, tot |-> tot, live |-> count_particles(psys)])]
             s2 == stats_object(cob, FALSE, tot, s1)
         IN stats_dupli_object_group_doit_members_nocur(Tail(gobject), [cur |-> acc.cur, stats |-> s2], psys, totgroup)

(* The loop over collection->gobject; acc is the pair of *cur and the       *)
(* accumulator.                                                            *)
RECURSIVE stats_dupli_object_group_doit_members(_, _, _, _)
stats_dupli_object_group_doit_members(gobject, acc, psys, totgroup) ==
    IF gobject = <<>> THEN acc
    ELSE LET cob == Head(gobject)
             tot == count_particles_mod(psys, totgroup, acc.cur)
             s1 == [acc.stats EXCEPT !.log = Append(@, [fn |-> "stats_dupli_object_group_doit", ob |-> cob, totgroup |-> totgroup, cur |-> acc.cur, tot |-> tot, live |-> count_particles(psys)])]
             s2 == stats_object(cob, FALSE, tot, s1)
         IN stats_dupli_object_group_doit_members(Tail(gobject), [cur |-> acc.cur + 1, stats |-> s2], psys, totgroup)

RECURSIVE stats_dupli_object_group_doit(_, _, _, _)
RECURSIVE stats_dupli_object_group_doit_children(_, _, _, _)
stats_dupli_object_group_doit(collection, acc, psys, totgroup) ==
    stats_dupli_object_group_doit_children(collection.children, stats_dupli_object_group_doit_members(collection.gobject, acc, psys, totgroup), psys, totgroup)

stats_dupli_object_group_doit_children(children, acc, psys, totgroup) ==
    IF children = <<>> THEN acc
    ELSE stats_dupli_object_group_doit_children(Tail(children), stats_dupli_object_group_doit(Head(children), acc, psys, totgroup), psys, totgroup)

(* One particle system of an object with OB_DUPLIPARTS.                    *)
stats_dupli_object_psys(psys, stats) ==
    LET part == psys.part
    IN IF part.draw_as = "PART_DRAW_OB" /\ part.dup_ob # NULL
       THEN stats_object(Deref(part.dup_ob), FALSE, count_particles(psys), stats)
       ELSE IF part.draw_as = "PART_DRAW_GR" /\ part.dup_group # NULL
            THEN LET collection == Deref(part.dup_group)
                     totgroup == stats_dupli_object_group_count(collection, 0)
                     r == stats_dupli_object_group_doit(collection, [cur |-> 0, stats |-> stats], psys, totgroup)
                 IN [r.stats EXCEPT !.log = Append(@, [fn |-> "group_done", totgroup |-> totgroup, cur |-> r.cur, collection |-> collection, live |-> count_particles(psys)])]
            ELSE stats

RECURSIVE stats_dupli_object_particles(_, _)
stats_dupli_object_particles(particlesystem, stats) ==
    IF particlesystem = <<>> THEN stats
    ELSE stats_dupli_object_particles(Tail(particlesystem), stats_dupli_object_psys(Head(particlesystem), stats))

(* The branches with OB_DUPLIFRAMES tested before the parent's flags.      *)
stats_dupli_object_branch_framesfirst(ob) ==
    IF "OB_DUPLIPARTS" \in ob.transflag THEN "DupliParticles"
    ELSE IF "OB_DUPLIFRAMES" \in ob.transflag THEN "DupliFrames"
    ELSE IF ob.parent # NULL /\ Deref(ob.parent).transflag \cap {"OB_DUPLIVERTS", "OB_DUPLIFACES"} # {} THEN "DupliVertsFaces"
    ELSE IF "OB_DUPLICOLLECTION" \in ob.transflag /\ ob.dup_group # NULL THEN "DupliGroup"
    ELSE "NoDupli"

(* The branch stats_dupli_object takes for ob. *)
stats_dupli_object_branch(ob) ==
    IF "OB_DUPLIPARTS" \in ob.transflag THEN "DupliParticles"
    ELSE IF ob.parent # NULL /\ Deref(ob.parent).transflag \cap {"OB_DUPLIVERTS", "OB_DUPLIFACES"} # {} THEN "DupliVertsFaces"
    ELSE IF "OB_DUPLIFRAMES" \in ob.transflag THEN "DupliFrames"
    ELSE IF "OB_DUPLICOLLECTION" \in ob.transflag /\ ob.dup_group # NULL THEN "DupliGroup"
    ELSE "NoDupli"

stats_dupli_object(ob, stats) ==
    LET is_selected == "BASE_SELECTED" \in ob.base_flag
        branch == stats_dupli_object_branch(ob)
        s0 == [stats EXCEPT !.totobjsel = IF is_selected THEN @ + 1 ELSE @,
                            !.log = Append(@, [fn |-> "stats_dupli_object", ob |-> ob, branch |-> branch])]
    IN CASE branch = "DupliParticles" ->
               LET s1 == stats_dupli_object_particles(ob.particlesystem, s0)
                   s2 == stats_object(ob, is_selected, 1, s1)
               IN [s2 EXCEPT !.totobj = @ + 1]
         [] branch = "DupliVertsFaces" ->
               LET tot == IF ob.type = "OB_MBALL" THEN 1 ELSE count_duplilist(Deref(ob.parent))
               IN stats_object(ob, is_selected, tot, [s0 EXCEPT !.totobj = @ + tot])
         [] branch \in {"DupliFrames", "DupliGroup"} ->
               LET tot == count_duplilist(ob)
               IN stats_object(ob, is_selected, tot, [s0 EXCEPT !.totobj = @ + tot])
         [] OTHER ->
               LET s1 == stats_object(ob, is_selected, 1, s0)
               IN [s1 EXCEPT !.totobj = @ + 1]

(***************************************************************************)
(* stats_update.                                                           *)
(***************************************************************************)
(* OBACT(view_layer): the object of the active base, NULL without one.     *)
OBACT(sc) == IF sc.basact = 0 THEN NULL ELSE Ptr(sc.object_bases[sc.basact])

(* OBEDIT_FROM_OBACT(ob): ob when it is in edit mode, else NULL.           *)
OBEDIT_FROM_OBACT(ob) == IF ob # NULL /\ "OB_MODE_EDIT" \in Deref(ob).mode THEN ob ELSE NULL

OBEDIT_FROM_VIEW_LAYER(sc) == OBEDIT_FROM_OBACT(OBACT(sc))

(* FOREACH_OBJECT_IN_MODE: the active object first, then the other bases   *)
(* of the same type and mode.                                              *)
ObjectsInMode(sc, object_type, object_mode) ==
    LET match(i) == sc.object_bases[i].type = object_type /\ sc.object_bases[i].mode = object_mode
        RECURSIVE others(_)
        others(i) == IF i > Len(sc.object_bases) THEN <<>>
                     ELSE (IF i # sc.basact /\ match(i) THEN <<sc.object_bases[i]>> ELSE <<>>) \o others(i + 1)
    IN (IF sc.basact # 0 /\ match(sc.basact) THEN <<sc.object_bases[sc.basact]>> ELSE <<>>) \o others(1)

(* DEG_OBJECT_ITER_FOR_RENDER_ENGINE: the evaluated objects, in order.      *)
EvaluatedObjects(sc) == sc.object_bases

RECURSIVE stats_update_edit(_, _)
stats_update_edit(obs, stats) ==
    IF obs = <<>> THEN stats ELSE stats_update_edit(Tail(obs), stats_object_edit(Head(obs), stats))

RECURSIVE stats_update_objects(_, _)
stats_update_objects(obs, stats) ==
    IF obs = <<>> THEN stats ELSE stats_update_objects(Tail(obs), stats_dupli_object(Head(obs), stats))

Branch(name, build) == [ZeroStats EXCEPT !.log = <<[fn |-> "stats_update", branch |-> name]>>, !.build = build]

(* stats_update without the branch of dynamic-topology sculpt mode. *)
stats_update_nosculpt(sc, build) ==
    LET ob == OBACT(sc)
        obedit == OBEDIT_FROM_VIEW_LAYER(sc)
    IN IF obedit # NULL
       THEN stats_update_edit(ObjectsInMode(sc, Deref(ob).type, Deref(ob).mode), Branch("Edit", build))
       ELSE IF ob # NULL /\ "OB_MODE_POSE" \in Deref(ob).mode
            THEN stats_object_pose(Deref(ob), Branch("Pose", build))
            ELSE stats_update_objects(EvaluatedObjects(sc), Branch("Object", build))

(* The local SceneStats stats that stats_update copies to view_layer->stats, *)
(* on a build that treats signed overflow as given.                          *)
stats_update(sc, build) ==
    LET ob == OBACT(sc)
        obedit == OBEDIT_FROM_VIEW_LAYER(sc)
    IN IF obedit # NULL
       THEN stats_update_edit(ObjectsInMode(sc, Deref(ob).type, Deref(ob).mode), Branch("Edit", build))
       ELSE IF ob # NULL /\ "OB_MODE_POSE" \in Deref(ob).mode
            THEN stats_object_pose(Deref(ob), Branch("Pose", build))
            ELSE IF ob # NULL /\ stats_is_object_dynamic_topology_sculpt(ob, Deref(ob).mode)
                 THEN stats_object_sculpt_dynamic_topology(Deref(ob), Branch("Sculpt", build))
                 ELSE stats_update_objects(EvaluatedObjects(sc), Branch("Object", build))

(***************************************************************************)
(* Formatting.                                                             *)
(***************************************************************************)
DigitChar(d) == <<"0", "1", "2", "3", "4", "5", "6", "7", "8", "9">>[d + 1]

RECURSIVE Digits(_)
Digits(n) == IF n < 10 THEN <<DigitChar(n)>> ELSE Digits(n \div 10) \o <<DigitChar(n % 10)>>

(* The nine digits of n < 10^9, zero padded. *)
Pad9(n) == LET ds == Digits(n) IN [i \in 1..(9 - Len(ds)) |-> "0"] \o ds

(* The decimal digits of a counter: of k, and of 2^64 + k for k < 0, with  *)
(* 2^64 = 18 446744073 709551616 split into chunks TLC can hold.           *)
U64Decimal(k) ==
    IF k >= 0 THEN Digits(k)
    ELSE LET lo == 709551616 + k
             borrow == IF lo >= 0 THEN 0 ELSE IF lo + 1000000000 >= 0 THEN 1 ELSE IF lo + 2000000000 >= 0 THEN 2 ELSE 3
         IN Digits(18) \o Pad9(446744073 - borrow) \o Pad9(lo + borrow * 1000000000)

RECURSIVE Grouped(_)
Grouped(ds) == IF Len(ds) <= 3 THEN ds ELSE Grouped(SubSeq(ds, 1, Len(ds) - 3)) \o <<",">> \o SubSeq(ds, Len(ds) - 2, Len(ds))

(* BLI_str_format_uint64_grouped: the decimal digits, grouped by thousands. *)
BLI_str_format_uint64_grouped(num) == Grouped(U64Decimal(num))

(* BLI_str_format_byte_unit(dst, bytes, true) for bytes < 10^6: bytes below *)
(* 1000 as "n B", from 1000 on as kilobytes with no decimals, rounded.      *)
BLI_str_format_byte_unit(bytes) ==
    IF bytes < 1000 THEN Digits(bytes) \o <<" B">> ELSE Digits((bytes + 500) \div 1000) \o <<" KB">>

(* SceneStatsFmt *)
SceneStatsFmt(stats) ==
    [
     totvert |-> BLI_str_format_uint64_grouped(stats.totvert), totvertsel |-> BLI_str_format_uint64_grouped(stats.totvertsel), totedge |-> BLI_str_format_uint64_grouped(stats.totedge), totedgesel |-> BLI_str_format_uint64_grouped(stats.totedgesel),
     totface |-> BLI_str_format_uint64_grouped(stats.totface), totfacesel |-> BLI_str_format_uint64_grouped(stats.totfacesel), totbone |-> BLI_str_format_uint64_grouped(stats.totbone), totbonesel |-> BLI_str_format_uint64_grouped(stats.totbonesel),
     totobj |-> BLI_str_format_uint64_grouped(stats.totobj), totobjsel |-> BLI_str_format_uint64_grouped(stats.totobjsel), totlamp |-> BLI_str_format_uint64_grouped(stats.totlamp), totlampsel |-> BLI_str_format_uint64_grouped(stats.totlampsel),
     tottri |-> BLI_str_format_uint64_grouped(stats.tottri), totgplayer |-> BLI_str_format_uint64_grouped(stats.totgplayer), totgpframe |-> BLI_str_format_uint64_grouped(stats.totgpframe), totgpstroke |-> BLI_str_format_uint64_grouped(stats.totgpstroke),
     totgppoint |-> BLI_str_format_uint64_grouped(stats.totgppoint) ]

(* memstr, from MEM_get_memory_in_use and MEM_get_mapped_memory_in_use.     *)
MemStr(m) ==
    <<" | Mem: ">> \o BLI_str_format_byte_unit(m.mem_in_use - m.mmap_in_use)
        \o (IF m.mmap_in_use # 0 THEN <<" (">> \o BLI_str_format_byte_unit(m.mmap_in_use) \o <<")">> ELSE <<>>)

(* gpumemstr, from GPU_mem_stats_supported and GPU_mem_stats_get.           *)
GpuMemStr(m) ==
    IF m.gpu_supported
    THEN <<" | Free GPU Mem: ">> \o BLI_str_format_byte_unit(m.gpu_free_mem)
            \o (IF m.gpu_tot_memory # 0 THEN <<"/">> \o BLI_str_format_byte_unit(m.gpu_tot_memory) ELSE <<>>)
    ELSE <<>>

(* StatsTemplate that takes sculpt mode for dynamic-topology sculpt mode,   *)
(* whether or not the sculpt session has a dynamic-topology structure.     *)
StatsTemplate_sculptmode(sc) ==
    LET ob == OBACT(sc)
        obedit == OBEDIT_FROM_OBACT(ob)
        object_mode == IF ob # NULL THEN Deref(ob).mode ELSE {}
    IN IF obedit # NULL
       THEN (IF Deref(obedit).type = "OB_MESH" THEN "EditMesh"
             ELSE IF Deref(obedit).type = "OB_ARMATURE" THEN "EditArmature" ELSE "EditOther")
       ELSE IF ob # NULL /\ "OB_MODE_POSE" \in object_mode THEN "Pose"
       ELSE IF ob # NULL /\ Deref(ob).type = "OB_GPENCIL" THEN "GreasePencil"
       ELSE IF ob # NULL /\ "OB_MODE_SCULPT" \in object_mode THEN "SculptDynamicTopology"
       ELSE "Object"

(* The template stats_string chooses. *)
StatsTemplate(sc) ==
    LET ob == OBACT(sc)
        obedit == OBEDIT_FROM_OBACT(ob)
        object_mode == IF ob # NULL THEN Deref(ob).mode ELSE {}
    IN IF obedit # NULL
       THEN (IF Deref(obedit).type = "OB_MESH" THEN "EditMesh"
             ELSE IF Deref(obedit).type = "OB_ARMATURE" THEN "EditArmature" ELSE "EditOther")
       ELSE IF ob # NULL /\ "OB_MODE_POSE" \in object_mode THEN "Pose"
       ELSE IF ob # NULL /\ Deref(ob).type = "OB_GPENCIL" THEN "GreasePencil"
       ELSE IF stats_is_object_dynamic_topology_sculpt(ob, object_mode) THEN "SculptDynamicTopology"
       ELSE "Object"

(* The text stats_string writes to stats->infostr, as the sequence of its  *)
(* pieces; OB_MODE_OBJECT is the empty set of mode flags.                  *)
stats_string(sc, stats, m) ==
    LET fmt == SceneStatsFmt(stats)
        ob == OBACT(sc)
        obedit == OBEDIT_FROM_OBACT(ob)
        object_mode == IF ob # NULL THEN Deref(ob).mode ELSE {}
        memstr == MemStr(m)
        gpumemstr == GpuMemStr(m)
        template == StatsTemplate(sc)
        head == (IF object_mode = {} THEN <<sc.active_collection, " | ">> ELSE <<>>)
                  \o (IF ob # NULL THEN <<Deref(ob).name, " | ">> ELSE <<>>)
        key == IF obedit # NULL /\ Deref(obedit).keyblock THEN <<"(Key) ">> ELSE <<>>
        body ==
            CASE template = "EditMesh" ->
                    key \o <<"Verts:">> \o fmt.totvertsel \o <<"/">> \o fmt.totvert
                        \o <<" | Edges:">> \o fmt.totedgesel \o <<"/">> \o fmt.totedge
                        \o <<" | Faces:">> \o fmt.totfacesel \o <<"/">> \o fmt.totface
                        \o <<" | Tris:">> \o fmt.tottri \o memstr \o gpumemstr
              [] template = "EditArmature" ->
                    key \o <<"Verts:">> \o fmt.totvertsel \o <<"/">> \o fmt.totvert
                        \o <<" | Bones:">> \o fmt.totbonesel \o <<"/">> \o fmt.totbone \o memstr \o gpumemstr
              [] template = "EditOther" ->
                    key \o <<"Verts:">> \o fmt.totvertsel \o <<"/">> \o fmt.totvert \o memstr \o gpumemstr
              [] template = "Pose" ->
                    <<"Bones:">> \o fmt.totbonesel \o <<"/">> \o fmt.totbone \o <<" ">> \o memstr \o gpumemstr
              [] template = "GreasePencil" ->
                    <<"Layers:">> \o fmt.totgplayer \o <<" | Frames:">> \o fmt.totgpframe
                        \o <<" | Strokes:">> \o fmt.totgpstroke \o <<" | Points:">> \o fmt.totgppoint
                        \o <<" | Objects:">> \o fmt.totobjsel \o <<"/">> \o fmt.totobj \o memstr \o gpumemstr
              [] template = "SculptDynamicTopology" ->
                    <<"Verts:">> \o fmt.totvert \o <<" | Tris:">> \o fmt.tottri \o gpumemstr
              [] OTHER ->
                    <<"Verts:">> \o fmt.totvert \o <<" | Faces:">> \o fmt.totface \o <<" | Tris:">> \o fmt.tottri
                        \o <<" | Objects:">> \o fmt.totobjsel \o <<"/">> \o fmt.totobj \o memstr \o gpumemstr
    IN head \o body \o <<" | ", "versionstr">>

(***************************************************************************)
(* The state machine.                                                      *)
(*   scene       the bases of the view layer with their objects, the       *)
(*               active base (0 for none) and the active collection        *)
(*   view_layer  view_layer->stats: NULL or the cached SceneStats          *)
(*   mem         what the memory accounting reports at this moment         *)
(*   call        history: the last call of ED_info_stats_string (the    *)
(*               string it returned, NULL before the first call, the       *)
(*               template it used, the memory figures it read, whether it  *)
(*               ran stats_update) and whether the scene was changed or    *)
(*               ED_info_stats_clear was called since, or the process      *)
(*               trapped                                                   *)
(*   nupdate     history: the number of runs of stats_update               *)
(*   upd         history: the last run of stats_update (its scene, the     *)
(*               calls it made, the counters it stored)                    *)
(***************************************************************************)
MaxUpdates == 2

(* MEM_callocN'd SceneStats that receives the local stats of stats_update. *)
StoredStats(stats) ==
    [
     totvert |-> stats.totvert, totvertsel |-> stats.totvertsel, totedge |-> stats.totedge, totedgesel |-> stats.totedgesel,
     totface |-> stats.totface, totfacesel |-> stats.totfacesel, totbone |-> stats.totbone, totbonesel |-> stats.totbonesel,
     totobj |-> stats.totobj, totobjsel |-> stats.totobjsel, totlamp |-> stats.totlamp, totlampsel |-> stats.totlampsel,
     tottri |-> stats.tottri, totgplayer |-> stats.totgplayer, totgpframe |-> stats.totgpframe, totgpstroke |-> stats.totgpstroke,
     totgppoint |-> stats.totgppoint,
     infostr |-> stats.infostr ]

ED_info_stats_clear_keep ==
    /\ ~call.aborted
    /\ view_layer' = view_layer
    /\ call' = [call EXCEPT !.cleared = TRUE]
    /\ UNCHANGED <<scene, mem, nupdate, upd>>

ED_info_stats_clear ==
    /\ ~call.aborted
    /\ view_layer' = IF view_layer.stats # NULL THEN [view_layer EXCEPT !.stats = NULL] ELSE view_layer
    /\ call' = [call EXCEPT !.cleared = TRUE]
    /\ UNCHANGED <<scene, mem, nupdate, upd>>

ED_info_stats_string_always ==
    /\ ~call.aborted
    /\ nupdate < MaxUpdates
    /\ \E build \in IntOverflow :
         \E filled \in {stats_update(scene, build)} :
           \E stats \in {StoredStats(filled)} :
             \E infostr \in {stats_string(scene, stats, mem)} :
               IF filled.trapped
               THEN /\ call' = [call EXCEPT !.aborted = TRUE]
                    /\ UNCHANGED <<view_layer, nupdate, upd>>
               ELSE /\ view_layer' = [view_layer EXCEPT !.stats = Ptr([stats EXCEPT !.infostr = infostr])]
                    /\ call' = [ret |-> Ptr(infostr), template |-> StatsTemplate(scene), mem |-> mem, recomputed |-> TRUE, mutated |-> FALSE, cleared |-> FALSE, aborted |-> FALSE]
                    /\ nupdate' = nupdate + 1
                    /\ upd' = Ptr([scene |-> scene, log |-> filled.log, stats |-> Counters(filled)])
    /\ UNCHANGED <<scene, mem>>

(* stats_update runs at most MaxUpdates times.  When the process traps in  *)
(* stats_update the call does not return, and nothing is called again.     *)
ED_info_stats_string ==
    /\ ~call.aborted
    /\ view_layer.stats = NULL => nupdate < MaxUpdates
    /\ \E build \in IntOverflow :
         LET update == view_layer.stats = NULL
         IN \E filled \in {IF update THEN stats_update(scene, build) ELSE ZeroStats} :
              \E stats \in {IF update THEN StoredStats(filled) ELSE Deref(view_layer.stats)} :
                \E infostr \in {stats_string(scene, stats, mem)} :
                  IF update /\ filled.trapped
                  THEN /\ call' = [call EXCEPT !.aborted = TRUE]
                       /\ UNCHANGED <<view_layer, nupdate, upd>>
                  ELSE /\ view_layer' = [view_layer EXCEPT !.stats = Ptr([stats EXCEPT !.infostr = infostr])]
                       /\ call' = [ret |-> Ptr(infostr), template |-> StatsTemplate(scene), mem |-> mem, recomputed |-> update, mutated |-> FALSE, cleared |-> FALSE, aborted |-> FALSE]
                       /\ nupdate' = IF update THEN nupdate + 1 ELSE nupdate
                       /\ upd' = IF update THEN Ptr([scene |-> scene, log |-> filled.log, stats |-> Counters(filled)]) ELSE upd
    /\ UNCHANGED <<scene, mem>>

(***************************************************************************)
(* The environment: memory use changes, and the user changes the mode of   *)
(* the active object.                                                      *)
(***************************************************************************)
MemStates ==
    { [mem_in_use |-> 1200, mmap_in_use |-> 0, gpu_supported |-> FALSE, gpu_free_mem |-> 0, gpu_tot_memory |-> 0],
      [mem_in_use |-> 1400, mmap_in_use |-> 0, gpu_supported |-> FALSE, gpu_free_mem |-> 0, gpu_tot_memory |-> 0],
      [mem_in_use |-> 2900, mmap_in_use |-> 300, gpu_supported |-> TRUE, gpu_free_mem |-> 700, gpu_tot_memory |-> 8000] }

MemChange ==
    /\ ~call.aborted
    /\ mem' \in MemStates \ {mem}
    /\ UNCHANGED <<scene, view_layer, call, nupdate, upd>>

(* The modes an object of the type can be in; {} is OB_MODE_OBJECT.        *)
ModesOf(type) ==
    CASE type = "OB_MESH" -> {{}, {"OB_MODE_EDIT"}, {"OB_MODE_SCULPT"}}
      [] type = "OB_ARMATURE" -> {{}, {"OB_MODE_EDIT"}, {"OB_MODE_POSE"}}
      [] type \in {"OB_CURVE", "OB_SURF", "OB_MBALL", "OB_LATTICE"} -> {{}, {"OB_MODE_EDIT"}}
      [] OTHER -> {{}}

(* The sculpt sessions of an object entering the mode: without and with a  *)
(* dynamic-topology BMesh.                                                 *)
SculptSessions(mode) ==
    IF "OB_MODE_SCULPT" \in mode
    THEN {Ptr([bm |-> NULL]), Ptr([bm |-> Ptr([totvert |-> 5, totface |-> 3])])}
    ELSE {NULL}

ModeChange ==
    /\ ~call.aborted
    /\ scene.basact # 0
    /\ \E mode \in ModesOf(scene.object_bases[scene.basact].type) \ {scene.object_bases[scene.basact].mode} :
         \E sculpt \in SculptSessions(mode) :
            scene' = [scene EXCEPT !.object_bases[scene.basact].mode = mode, !.object_bases[scene.basact].sculpt = sculpt]
    /\ call' = [call EXCEPT !.mutated = TRUE]
    /\ UNCHANGED <<view_layer, mem, nupdate, upd>>

(***************************************************************************)
(* Objects.                                                                *)
(***************************************************************************)
Object0 ==
    [name |-> "Object", type |-> "OB_EMPTY", mode |-> {}, base_flag |-> {}, transflag |-> {},
     parent |-> NULL, dup_group |-> NULL, duplilist |-> 1, mesh_eval |-> NULL, disp |-> NULL,
     gpd |-> [totlayer |-> 0, totframe |-> 0, totstroke |-> 0, totpoint |-> 0],
     particlesystem |-> <<>>, sculpt |-> NULL, pose |-> NULL, arm |-> [layer |-> {1}],
     em |-> [totvert |-> 0, totvertsel |-> 0, totedge |-> 0, totedgesel |-> 0, totface |-> 0, totfacesel |-> 0, tottri |-> 0],
     edbo |-> <<>>, nurbs |-> <<>>, editelems |-> <<>>,
     editlatt |-> [pntsu |-> 0, pntsv |-> 0, pntsw |-> 0, def |-> <<>>], keyblock |-> FALSE]

(* A mesh of v vertices and e edges whose polygons have the given corner   *)
(* counts (polys is kept for the properties; the code reads the totals).   *)
Mesh(v, e, polys) == [totvert |-> v, totedge |-> e, totpoly |-> Len(polys), totloop |-> SeqSum(polys), polys |-> polys]

Selected(ob, sel) == [ob EXCEPT !.base_flag = IF sel THEN {"BASE_SELECTED"} ELSE {}]

Cube ==
    [Object0 EXCEPT !.name = "Cube", !.type = "OB_MESH", !.keyblock = TRUE,
                    !.mesh_eval = Ptr(Mesh(8, 12, <<4, 4, 4, 4, 4, 4>>)),
                    !.em = [totvert |-> 8, totvertsel |-> 4, totedge |-> 12, totedgesel |-> 4, totface |-> 6, totfacesel |-> 1, tottri |-> 12]]

Bone(flag, parent) == [flag |-> flag, parent |-> parent]

Armature ==
    [Object0 EXCEPT !.name = "Armature", !.type = "OB_ARMATURE",
                    !.edbo = <<Bone({"BONE_TIPSEL"}, 0), Bone({"BONE_CONNECTED", "BONE_ROOTSEL", "BONE_TIPSEL", "BONE_SELECTED"}, 1)>>,
                    !.pose = Ptr([chanbase |-> << [bone |-> Ptr([flag |-> {"BONE_SELECTED"}, layer |-> {1}])],
                                                  [bone |-> Ptr([flag |-> {"BONE_SELECTED"}, layer |-> {2}])],
                                                  [bone |-> NULL] >>])]

Lamp == [Object0 EXCEPT !.name = "Lamp", !.type = "OB_LAMP"]

BezierCurve ==
    [Object0 EXCEPT !.name = "Curve", !.type = "OB_CURVE", !.disp = Ptr([totv |-> 6, totf |-> 2, tottri |-> 4]),
                    !.nurbs = << [type |-> "CU_BEZIER", pntsu |-> 2, pntsv |-> 1, bp |-> <<>>,
                                  bezt |-> <<[f1 |-> TRUE, f2 |-> TRUE, f3 |-> FALSE], [f1 |-> FALSE, f2 |-> FALSE, f3 |-> FALSE]>>],
                                 [type |-> "CU_NURBS", pntsu |-> 2, pntsv |-> 1, bezt |-> <<>>,
                                  bp |-> <<[f1 |-> TRUE], [f1 |-> FALSE]>>] >>]

MetaBall ==
    [Object0 EXCEPT !.name = "Mball", !.type = "OB_MBALL", !.disp = Ptr([totv |-> 4, totf |-> 2, tottri |-> 2]),
                    !.editelems = <<[select |-> TRUE], [select |-> FALSE]>>]

Lattice ==
    [Object0 EXCEPT !.name = "Lattice", !.type = "OB_LATTICE",
                    !.editlatt = [pntsu |-> 2, pntsv |-> 1, pntsw |-> 1, def |-> <<[f1 |-> TRUE], [f1 |-> FALSE]>>]]

GPencil ==
    [Object0 EXCEPT !.name = "GPencil", !.type = "OB_GPENCIL",
                    !.gpd = [totlayer |-> 1, totframe |-> 2, totstroke |-> 3, totpoint |-> 9]]

SceneOf(bases, basact) == [object_bases |-> bases, basact |-> basact, active_collection |-> "Collection"]

(* Sequences over S of length 0..n. *)
SeqsUpTo(S, n) == UNION {[1..k -> S] : k \in 0..n}

(***************************************************************************)
(* Spec: the cache of a view layer whose active object is of any kind,     *)
(* selected or not, or that has no active object, beside a selected mesh   *)
(* and a lamp; the user changes the mode of the active object.             *)
(***************************************************************************)
Kinds == {Cube, Armature, Lamp, BezierCurve, MetaBall, Lattice, GPencil}

InitCache ==
    /\ view_layer = [stats |-> NULL]
    /\ mem = CHOOSE m \in MemStates : m.mem_in_use = 1200
    /\ call = [ret |-> NULL, template |-> "", mem |-> mem, recomputed |-> FALSE, mutated |-> FALSE, cleared |-> FALSE, aborted |-> FALSE]
    /\ nupdate = 0
    /\ upd = NULL

Init ==
    /\ InitCache
    /\ \/ scene = SceneOf(<<Selected(Cube, TRUE), Lamp>>, 0)
       \/ \E ob \in Kinds, sel \in BOOLEAN : scene = SceneOf(<<Selected(ob, sel), Selected(Cube, TRUE), Lamp>>, 1)

Next == ED_info_stats_string \/ ED_info_stats_clear \/ MemChange \/ ModeChange

Spec == Init /\ [][Next]_vars

(***************************************************************************)
(* The specifications below recompute over families of scenes, without     *)
(* the environment: ED_info_stats_string and ED_info_stats_clear only.     *)
(***************************************************************************)
NextRecompute == ED_info_stats_string \/ ED_info_stats_clear

(***************************************************************************)
(* SpecArmature: armatures in edit mode of up to MaxBones edit bones, in   *)
(* every order of the list, alone or with a second armature in the same    *)
(* edit session.                                                           *)
(***************************************************************************)
MaxBones == 2

BoneFlags ==
    { {}, {"BONE_CONNECTED"}, {"BONE_CONNECTED", "BONE_ROOTSEL"}, {"BONE_TIPSEL"},
      {"BONE_ROOTSEL", "BONE_TIPSEL", "BONE_SELECTED"},
      {"BONE_CONNECTED", "BONE_ROOTSEL", "BONE_TIPSEL", "BONE_SELECTED"} }

(* The parent links lead to a bone without parent: no bone is its own      *)
(* ancestor.                                                               *)
RECURSIVE HasRoot(_, _, _)
HasRoot(edbo, i, fuel) == i = 0 \/ (fuel > 0 /\ HasRoot(edbo, edbo[i].parent, fuel - 1))

EditBoneLists ==
    {edbo \in UNION {[1..n -> [flag : BoneFlags, parent : 0..n]] : n \in 1..MaxBones} :
        \A i \in 1..Len(edbo) : HasRoot(edbo, i, Len(edbo))}

InitArmature ==
    /\ InitCache
    /\ \E edbo \in EditBoneLists :
         LET arm == [Armature EXCEPT !.mode = {"OB_MODE_EDIT"}, !.edbo = edbo]
         IN \/ scene = SceneOf(<<arm, Lamp>>, 1)
            \/ scene = SceneOf(<<[Armature EXCEPT !.mode = {"OB_MODE_EDIT"}], Lamp, arm>>, 3)

SpecArmature == InitArmature /\ [][NextRecompute]_vars

(***************************************************************************)
(* SpecObjects: object mode over one evaluated object of every kind and    *)
(* every duplication setting, selected or not, after a selected mesh.      *)
(***************************************************************************)
MaxPolys == 2

MaxDupli == 2

PolyCorners == {3, 4}

Meshes == {Mesh(SeqSum(polys) + 1, SeqSum(polys) + 2, polys) : polys \in SeqsUpTo(PolyCorners, MaxPolys)}

Suzanne == [Object0 EXCEPT !.name = "Suzanne", !.type = "OB_MESH", !.mesh_eval = Ptr(Mesh(7, 9, <<4, 3>>))]

Collection(gobject, children) == [gobject |-> gobject, children |-> children]

ParticleSystem(draw_as, dup_ob, dup_group, totlive) ==
    [part |-> [draw_as |-> draw_as, dup_ob |-> dup_ob, dup_group |-> dup_group], totlive |-> totlive]

Shapes ==
    {[Object0 EXCEPT !.name = "Mesh", !.type = "OB_MESH", !.mesh_eval = Ptr(me)] : me \in Meshes}
    \cup {[Object0 EXCEPT !.name = "Mesh", !.type = "OB_MESH"], Lamp, GPencil, Object0, MetaBall,
          [MetaBall EXCEPT !.disp = NULL], BezierCurve, [BezierCurve EXCEPT !.disp = NULL],
          [BezierCurve EXCEPT !.mesh_eval = Ptr(Mesh(5, 4, <<4>>))],
          [BezierCurve EXCEPT !.type = "OB_FONT"], [BezierCurve EXCEPT !.type = "OB_SURF", !.mesh_eval = Ptr(Mesh(4, 3, <<3>>))],
          [Object0 EXCEPT !.name = "Points", !.type = "OB_MESH", !.mesh_eval = Ptr(Mesh(100000, 0, <<>>))]}

Parents ==
    {NULL, Ptr([transflag |-> {}, duplilist |-> 1]), Ptr([transflag |-> {"OB_DUPLIVERTS"}, duplilist |-> 0]),
     Ptr([transflag |-> {"OB_DUPLIVERTS"}, duplilist |-> 30000]), Ptr([transflag |-> {"OB_DUPLIFACES"}, duplilist |-> 3])}

(* The flags with the collection they can go with: dup_group matters to    *)
(* stats_dupli_object only beside OB_DUPLICOLLECTION or no flag at all.    *)
DupliFlags ==
    {<<{}, NULL>>, <<{"OB_DUPLIPARTS"}, NULL>>, <<{"OB_DUPLIFRAMES"}, NULL>>, <<{"OB_DUPLIPARTS", "OB_DUPLIFRAMES"}, NULL>>,
     <<{"OB_DUPLICOLLECTION"}, NULL>>, <<{"OB_DUPLIFRAMES", "OB_DUPLICOLLECTION"}, NULL>>}
    \cup {<<t, Ptr(Collection(<<Suzanne>>, <<>>))>> : t \in {{}, {"OB_DUPLICOLLECTION"}, {"OB_DUPLIFRAMES", "OB_DUPLICOLLECTION"}}}

DupliSettings ==
    {[transflag |-> tg[1], dup_group |-> tg[2], duplilist |-> d, parent |-> par] :
        tg \in DupliFlags, d \in 0..MaxDupli, par \in Parents}

ObjectParticles ==
    << ParticleSystem("PART_DRAW_OB", Ptr(Selected(Suzanne, TRUE)), NULL, 2),
       ParticleSystem("PART_DRAW_GR", NULL, Ptr(Collection(<<Suzanne, Selected(Lamp, TRUE)>>, <<>>)), 3),
       ParticleSystem("PART_DRAW_OB", NULL, NULL, 2),
       ParticleSystem("PART_DRAW_PATH", Ptr(Suzanne), NULL, 2) >>

InitObjects ==
    /\ InitCache
    /\ \E shape \in Shapes, dup \in DupliSettings, sel \in BOOLEAN :
         LET ob == [Selected(shape, sel) EXCEPT !.transflag = dup.transflag, !.dup_group = dup.dup_group,
                                               !.duplilist = dup.duplilist, !.parent = dup.parent,
                                               !.particlesystem = ObjectParticles]
         IN scene = SceneOf(<<Selected(Cube, TRUE), ob>>, 1)

SpecObjects == InitObjects /\ [][NextRecompute]_vars

(***************************************************************************)
(* SpecParticles: an object with particle systems drawn as a collection:   *)
(* a single collection A, or A with the children B and C that share the    *)
(* child D; A and D have 0..MaxMembers members, B and C one or none; the   *)
(* system has 0..MaxParticles live particles.                              *)
(***************************************************************************)
MaxMembers == 2

MaxParticles == 10

(* The members of the named collection: distinct objects, meshes and lamps in turn. *)
Members(name, n) == [j \in 1..n |-> [(IF j % 2 = 1 THEN Suzanne ELSE Lamp) EXCEPT !.name = <<name, j>>]]

Collections ==
    {Collection(Members("A", a), <<>>) : a \in 0..MaxMembers}
    \cup {LET D == Collection(Members("D", d), <<>>)
          IN Collection(Members("A", a), <<Collection(Members("B", b), <<D>>), Collection(Members("C", c), <<D>>)>>) :
            a \in 0..MaxMembers, b \in 0..1, c \in 0..1, d \in 0..MaxMembers}

InitParticles ==
    /\ InitCache
    /\ \E collection \in Collections, totlive \in 0..MaxParticles :
         LET psys == ParticleSystem("PART_DRAW_GR", NULL, Ptr(collection), totlive)
             emitter == [Selected(Suzanne, TRUE) EXCEPT !.name = "Emitter", !.transflag = {"OB_DUPLIPARTS"}]
         IN \/ scene = SceneOf(<<[emitter EXCEPT !.particlesystem = <<psys>>]>>, 1)
            \/ scene = SceneOf(<<Lamp, [emitter EXCEPT !.particlesystem = <<ParticleSystem("PART_DRAW_OB", Ptr(Lamp), NULL, 2), psys>>]>>, 0)

SpecParticles == InitParticles /\ [][NextRecompute]_vars

(***************************************************************************)
(* Properties.  The last run of stats_update, as the history recorded it.  *)
(***************************************************************************)
UpdScene == Deref(upd).scene

UpdLog == Deref(upd).log

UpdStats == Deref(upd).stats

UpdBranch == Head(UpdLog).branch

(* The mode of a scene, in the priority order Edit, Pose, dynamic-topology *)
(* sculpt, Object.                                                         *)
ModeOf(sc) ==
    IF sc.basact = 0 THEN "Object"
    ELSE LET act == sc.object_bases[sc.basact]
         IN IF "OB_MODE_EDIT" \in act.mode THEN "Edit"
            ELSE IF "OB_MODE_POSE" \in act.mode THEN "Pose"
            ELSE IF "OB_MODE_SCULPT" \in act.mode /\ act.sculpt # NULL /\ Deref(act.sculpt).bm # NULL THEN "Sculpt"
            ELSE "Object"

(* The mode whose counters a template displays. *)
TemplateMode(template) ==
    CASE template \in {"EditMesh", "EditArmature", "EditOther"} -> "Edit"
      [] template = "Pose" -> "Pose"
      [] template = "SculptDynamicTopology" -> "Sculpt"
      [] template \in {"GreasePencil", "Object"} -> "Object"

(* The walker a logged call belongs to. *)
WalkerOf(fn) ==
    CASE fn = "stats_object_edit" -> "Edit"
      [] fn = "stats_object_pose" -> "Pose"
      [] fn = "stats_object_sculpt_dynamic_topology" -> "Sculpt"
      [] OTHER -> "Object"

C3_ClearThenRecompute ==
    [][/\ ED_info_stats_clear => /\ view_layer'.stats = NULL
                                 /\ (view_layer.stats = NULL => view_layer' = view_layer)
                                 /\ UNCHANGED <<scene, mem, nupdate, upd>>
       /\ (ED_info_stats_string /\ view_layer.stats = NULL)
             => /\ nupdate' = nupdate + 1
                /\ call'.recomputed
                /\ view_layer'.stats # NULL
                /\ Counters(Deref(view_layer'.stats)) = Deref(upd').stats
                /\ Deref(upd').scene = scene
                /\ \E build \in IntOverflow : Deref(upd').stats = Counters(stats_update(scene, build))
                /\ (upd # NULL /\ Deref(upd).scene = scene => Deref(upd').stats = Deref(upd).stats)]_vars

(* The cache was filled, cleared and filled again over the same scene.     *)
C3_Witness ==
    /\ nupdate = 2 /\ call.recomputed /\ ~call.cleared /\ ~call.mutated
    /\ view_layer.stats # NULL /\ UpdScene = scene
    /\ UpdStats.totvert > 0

(* C4: a run of stats_update takes the one branch of the scene's mode, in  *)
(* the priority order Edit, Pose, dynamic-topology sculpt, Object; every   *)
(* call it makes belongs to that walker, and the counters of the other     *)
(* modes are zero.                                                         *)
C4_OneWalker ==
    upd # NULL =>
        LET st == UpdStats
            zero(fields) == \A f \in fields : st[f] = 0
        IN /\ UpdBranch = ModeOf(UpdScene)
           /\ \A i \in 2..Len(UpdLog) : UpdLog[i].fn # "stats_update" /\ WalkerOf(UpdLog[i].fn) = UpdBranch
           /\ UpdBranch = "Edit" => zero({"totobj", "totobjsel", "totlamp", "totlampsel", "totgplayer", "totgpframe", "totgpstroke", "totgppoint"})
           /\ UpdBranch = "Pose" => zero(CounterFields \ {"totbone", "totbonesel"})
           /\ UpdBranch = "Sculpt" => zero(CounterFields \ {"totvert", "tottri"})
           /\ UpdBranch = "Object" => zero({"totbone", "totbonesel", "totedgesel"})

(* A run over an active object in dynamic-topology sculpt mode, beside a   *)
(* selected mesh: the structure's counts and nothing else.                 *)
C4_Witness ==
    /\ upd # NULL /\ UpdBranch = "Sculpt" /\ Len(UpdScene.object_bases) = 3
    /\ UpdStats.totvert > 0 /\ UpdStats.tottri > 0 /\ UpdStats.totobj = 0

C1_SelectedAtMostTotal ==
    upd # NULL =>
        /\ ULe(UpdStats.totvertsel, UpdStats.totvert)
        /\ ULe(UpdStats.totfacesel, UpdStats.totface)
        /\ ULe(UpdStats.totbonesel, UpdStats.totbone)
        /\ ULe(UpdStats.totobjsel, UpdStats.totobj)

(* The edit bones of the armatures of the edit session that was counted.   *)
EditedBones == Flatten([i \in 1..Len(UpdLog) |-> IF UpdLog[i].fn = "stats_object_edit" THEN UpdLog[i].ob.edbo ELSE <<>>])

(* The bones flagged connected that have a parent. *)
ConnectedBones(edbo) == {i \in 1..Len(edbo) : "BONE_CONNECTED" \in edbo[i].flag /\ edbo[i].parent # 0}

(* C6: after a run of stats_update over armatures in edit mode with n edit *)
(* bones in all, c of them connected to a parent, totbone = n and          *)
(* totvert = 2n - c, whatever the order of the bones.                      *)
C6_ArmatureVerts ==
    (upd # NULL /\ UpdBranch = "Edit" /\ \A i \in 2..Len(UpdLog) : UpdLog[i].ob.type = "OB_ARMATURE") =>
        LET n == Len(EditedBones)
            c == Cardinality(ConnectedBones(EditedBones))
        IN /\ UpdStats.totbone = n
           /\ UpdStats.totvert = 2 * n - c
           /\ UpdStats.totvert >= 0

(* One armature whose first bone is connected to its parent, the second    *)
(* bone of the list, a root: the decrement comes first, on totvert = 0;    *)
(* 3 points, 2 bones.                                                      *)
C6_Witness ==
    /\ upd # NULL /\ UpdBranch = "Edit" /\ Len(UpdLog) = 2
    /\ Len(EditedBones) = 2 /\ ConnectedBones(EditedBones) = {1}
    /\ EditedBones[1].parent = 2 /\ EditedBones[2].parent = 0
    /\ UpdStats.totvert = 3 /\ UpdStats.totbone = 2

(* The counters a call of stats_object added, per field. *)
Added(e, f) == e.post[f] - e.pre[f]

(* x = a * b for a, b >= 0, whether or not TLC can hold the product. *)
IsProduct(x, a, b) == IF a = 0 \/ b = 0 THEN x = 0 ELSE x >= b /\ x % b = 0 /\ x \div b = a

(* C7: a call of stats_object on an object counted through its evaluated   *)
(* mesh of v vertices, e edges, f polygons of k1..kf corners and l loops,  *)
(* with multiplier m, adds v*m, e*m, f*m and (l - 2f)*m = m * sum(ki - 2)  *)
(* to totvert, totedge, totface and tottri; it adds v and f, not           *)
(* multiplied, to totvertsel and totfacesel when the object is selected    *)
(* and nothing when it is not; the other counters are unchanged.           *)
C7_MeshCounts ==
    upd # NULL =>
        \A i \in 1..Len(UpdLog) :
            LET e == UpdLog[i]
            IN (e.fn = "stats_object" /\ e.ob.type \in {"OB_MESH", "OB_SURF", "OB_CURVE", "OB_FONT"} /\ e.ob.mesh_eval # NULL) =>
                 LET me == Deref(e.ob.mesh_eval)
                     v == me.totvert
                     f == Len(me.polys)
                     l == SeqSum(me.polys)
                     m == e.totob
                 IN /\ IsProduct(Added(e, "totvert"), v, m)
                    /\ IsProduct(Added(e, "totedge"), me.totedge, m)
                    /\ IsProduct(Added(e, "totface"), f, m)
                    /\ IsProduct(Added(e, "tottri"), l - 2 * f, m)
                    /\ IsProduct(Added(e, "tottri"), SeqSum([k \in 1..f |-> me.polys[k] - 2]), m)
                    /\ Added(e, "totvertsel") = (IF e.sel THEN v ELSE 0)
                    /\ Added(e, "totfacesel") = (IF e.sel THEN f ELSE 0)
                    /\ \A g \in CounterFields \ {"totvert", "totedge", "totface", "tottri", "totvertsel", "totfacesel"} : Added(e, g) = 0

(* The duplication branch of a top-level object: particle-based, else      *)
(* parent per-vertex/face, else per-frame, else nested-collection with a   *)
(* target collection, else none.                                           *)
DupliBranchOf(ob) ==
    CASE "OB_DUPLIPARTS" \in ob.transflag -> "DupliParticles"
      [] "OB_DUPLIPARTS" \notin ob.transflag /\ ob.parent # NULL /\ ("OB_DUPLIVERTS" \in Deref(ob.parent).transflag \/ "OB_DUPLIFACES" \in Deref(ob.parent).transflag) -> "DupliVertsFaces"
      [] OTHER -> IF "OB_DUPLIFRAMES" \in ob.transflag THEN "DupliFrames"
                  ELSE IF "OB_DUPLICOLLECTION" \in ob.transflag /\ ob.dup_group # NULL THEN "DupliGroup"
                  ELSE "NoDupli"

(* The multiplier of a top-level object. *)
MultiplierOf(ob) ==
    CASE DupliBranchOf(ob) \in {"DupliParticles", "NoDupli"} -> 1
      [] DupliBranchOf(ob) = "DupliVertsFaces" -> IF ob.type = "OB_MBALL" THEN 1 ELSE Deref(ob.parent).duplilist
      [] OTHER -> ob.duplilist

(* C8: a run of stats_update in object mode calls stats_dupli_object once  *)
(* per top-level object, in order, on the one branch of the object; the    *)
(* object's own geometry is counted once, with its multiplier; totobj is   *)
(* the sum of the multipliers and totobjsel the number of selected         *)
(* top-level objects.                                                      *)
C8_ObjectTotals ==
    (upd # NULL /\ UpdBranch = "Object") =>
        LET obs == UpdScene.object_bases
            calls == SelectSeq(UpdLog, LAMBDA e : e.fn = "stats_dupli_object")
            own == SelectSeq(UpdLog, LAMBDA e : e.fn = "stats_object" /\ e.ob \in {obs[k] : k \in 1..Len(obs)})
        IN /\ Len(calls) = Len(obs)
           /\ \A k \in 1..Len(calls) : calls[k].ob = obs[k] /\ calls[k].branch = DupliBranchOf(obs[k])
           /\ Len(own) = Len(obs)
           /\ \A k \in 1..Len(own) : /\ own[k].ob = obs[k]
                                     /\ own[k].totob = MultiplierOf(obs[k])
                                     /\ own[k].sel = ("BASE_SELECTED" \in obs[k].base_flag)
           /\ UpdStats.totobj = SeqSum([k \in 1..Len(obs) |-> MultiplierOf(obs[k])])
           /\ UpdStats.totobjsel = Cardinality({k \in 1..Len(obs) : "BASE_SELECTED" \in obs[k].base_flag})

(* A selected mesh and a selected object with the per-frame flag under a   *)
(* per-vertex parent of 3 instances: 1 + 3 objects, 2 selected.            *)
C8_Witness ==
    /\ upd # NULL /\ UpdBranch = "Object" /\ Len(UpdScene.object_bases) = 2
    /\ DupliBranchOf(UpdScene.object_bases[2]) = "DupliVertsFaces"
    /\ "OB_DUPLIFRAMES" \in UpdScene.object_bases[2].transflag
    /\ UpdScene.object_bases[2].duplilist = 2
    /\ UpdStats.totobj = 4 /\ UpdStats.totobjsel = 2

(* The distributions over a collection in the log: the indices of the      *)
(* entries that end one, and for such an index the entries of the members  *)
(* it counted, in order (those since the distribution before it ended).    *)
Distributions == {j \in 1..Len(UpdLog) : UpdLog[j].fn = "group_done"}

MembersCounted(j) ==
    LET before == {k \in Distributions : k < j}
        from == IF before = {} THEN 1 ELSE (CHOOSE k \in before : \A h \in before : h <= k) + 1
    IN SelectSeq(SubSeq(UpdLog, from, j - 1), LAMBDA e : e.fn = "stats_dupli_object_group_doit")

(* floor(P/N) + (1 if i < P mod N else 0) *)
Share(P, N, i) == (P \div N) + (IF i < P % N THEN 1 ELSE 0)

(* C5: in a distribution of P live particles over a collection of N >= 1   *)
(* members, the member at index i is counted with the multiplier           *)
(* floor(P/N) + (1 if i < P mod N else 0), by a call of stats_object with  *)
(* selection off; the multipliers sum to P, differ by at most 1 and do     *)
(* not grow along the enumeration.                                         *)
C5_RoundRobin ==
    upd # NULL =>
        /\ \A i \in 1..Len(UpdLog) :
              UpdLog[i].fn = "stats_dupli_object_group_doit" =>
                 /\ UpdLog[i].totgroup >= 1
                 /\ i < Len(UpdLog)
                 /\ UpdLog[i + 1].fn = "stats_object"
                 /\ UpdLog[i + 1].ob = UpdLog[i].ob
                 /\ UpdLog[i + 1].sel = FALSE
                 /\ UpdLog[i + 1].totob = UpdLog[i].tot
        /\ \A j \in Distributions :
              LET seg == MembersCounted(j)
                  P == UpdLog[j].live
                  N == UpdLog[j].totgroup
              IN N >= 1 =>
                   /\ Len(seg) = N
                   /\ \A k \in 1..Len(seg) : seg[k].tot = Share(P, N, k - 1)
                   /\ SeqSum([k \in 1..Len(seg) |-> seg[k].tot]) = P
                   /\ \A k, h \in 1..Len(seg) : k <= h => seg[k].tot - seg[h].tot \in {0, 1}

(* 10 live particles over a collection that enumerates 3 members: 4, 3, 3. *)
C5_Witness ==
    /\ upd # NULL
    /\ \E j \in Distributions :
          /\ UpdLog[j].live = 10 /\ UpdLog[j].totgroup = 3
          /\ [k \in 1..3 |-> MembersCounted(j)[k].tot] = <<4, 3, 3>>

(* The members a nested collection enumerates: its own in list order, then *)
(* those of each child collection in turn, depth first.                    *)
RECURSIVE Enumerate(_)
Enumerate(collection) ==
    collection.gobject \o Flatten([k \in 1..Len(collection.children) |-> Enumerate(collection.children[k])])

(* C9: a distribution over a nested collection counts the members the      *)
(* collection enumerates, in that order, each path to a shared child       *)
(* once; totgroup is their number; the index of the k-th is k - 1, below   *)
(* totgroup, and the index is totgroup at the end; nothing is counted for  *)
(* a collection tree without members.                                      *)
C9_SameEnumeration ==
    upd # NULL =>
        \A j \in Distributions :
            LET seg == MembersCounted(j)
                members == Enumerate(UpdLog[j].collection)
            IN /\ UpdLog[j].totgroup = Len(members)
               /\ Len(seg) = Len(members)
               /\ \A k \in 1..Len(seg) : /\ seg[k].ob = members[k]
                                         /\ seg[k].cur = k - 1
                                         /\ seg[k].cur < seg[k].totgroup
                                         /\ seg[k].totgroup = UpdLog[j].totgroup
               /\ UpdLog[j].cur = UpdLog[j].totgroup
               /\ (UpdLog[j].totgroup = 0 => seg = <<>>)

(* A collection with two children that share a child of two members, each  *)
(* with a member of its own: the shared members are counted on both paths. *)
C9_Witness ==
    /\ upd # NULL
    /\ \E j \in Distributions :
          LET c == UpdLog[j].collection
          IN /\ Len(c.children) = 2 /\ Len(c.gobject) = 1
             /\ Len(c.children[1].gobject) = 1 /\ Len(c.children[2].gobject) = 1
             /\ c.children[1].children = c.children[2].children
             /\ Len(c.children[1].children[1].gobject) = 2
             /\ UpdLog[j].totgroup = 7 /\ UpdLog[j].cur = 7
             /\ MembersCounted(j)[3].ob = MembersCounted(j)[6].ob

====
